---- MODULE Spec2Model ----
(***************************************************************************)
(* Model of the NEAT genome (NeuralNetwork) of rustneat: src/src/nn/mod.rs. *)
(*                                                                         *)
(* A genome is two insertion-ordered maps (IndexMap): NeuronId ->          *)
(* NeuronGene and ConnectionId -> ConnectionGene.  An IndexMap is modelled *)
(* as the sequence of its entries in iteration order; the key of an entry  *)
(* is the id of the gene it holds.  IndexMap::insert on an existing key    *)
(* replaces the value in place, on a new key appends; IndexMap::remove is  *)
(* swap_remove (the last entry moves into the hole).                       *)
(*                                                                         *)
(* Weights and biases are f64 in the source; they are modelled as integers *)
(* with exact arithmetic (no rounding, no NaN, no infinity).               *)
(***************************************************************************)
EXTENDS Integers, Sequences, FiniteSets, TLC

VARIABLES
    neurons,        \* self.neurons: sequence of [id, bias]
    connections,    \* self.connections: sequence of [in, out, weight]
    innovation_id,  \* the caller's counter handed to mutate
    sacred,         \* p.n_inputs + p.n_outputs of the params handed to mutate
    n_init,         \* the n the genome was created with: with_neurons(n)
    panicked,       \* an assert! of add_connection failed
    last,           \* the call that produced this state, with its arguments
    pair,           \* two genomes [a, b] handed to distance, mate, is_same_specie
    organism,       \* the genome whose network is activated
    slices,         \* the caller's sensors and outputs handed to activate
    result          \* what the last call on the pair returned, with its arguments

genome_vars == <<neurons, connections, innovation_id, sacred, n_init, panicked, last>>
pair_vars == <<pair, organism, slices, result>>
vars == <<genome_vars, pair_vars>>

\* ---------------------------------------------------------------- bounds
\* Neuron ids are 0 .. MaxInnov-1: mutate stops adding neurons at MaxInnov.
MaxInnov == 3
\* A genome holds at most MaxConns connections.
MaxConns == 2
\* with_neurons(n) is called with n in 0 .. MaxInit.
MaxInit == 2
\* Weights range over 0 .. MaxWeight, biases over 0 .. MaxBias.
MaxWeight == 1
MaxBias == 0

NeuronIds == 0 .. (MaxInnov - 1)
Weights == 0 .. MaxWeight
Biases == 0 .. MaxBias
\* rand::random::<usize>() is drawn from 0 .. MaxRand: enough to reach every
\* index of every map after the modulo.
MaxRand == MaxInnov + MaxConns
Rand == 0 .. MaxRand

\* ------------------------------------------------------------- IndexMap
NeuronGene(bias, id) == [id |-> id, bias |-> bias]
ConnectionGene(in, out, weight) == [in |-> in, out |-> out, weight |-> weight]

NeuronKeys(ns) == {ns[i].id : i \in 1 .. Len(ns)}
ConnKeys(cs) == {<<cs[i].in, cs[i].out>> : i \in 1 .. Len(cs)}

\* get_full / get_index_of: the 1-based position of a key (0 when absent).
NeuronIndex(ns, id) ==
    IF id \in NeuronKeys(ns) THEN CHOOSE i \in 1 .. Len(ns) : ns[i].id = id ELSE 0

ConnIndex(cs, in, out) ==
    IF <<in, out>> \in ConnKeys(cs)
    THEN CHOOSE i \in 1 .. Len(cs) : cs[i].in = in /\ cs[i].out = out
    ELSE 0

\* IndexMap::swap_remove by position.
SwapRemove(s, i) ==
    IF i = 0 THEN s
    ELSE IF i = Len(s) THEN SubSeq(s, 1, Len(s) - 1)
    ELSE [SubSeq(s, 1, Len(s) - 1) EXCEPT ![i] = s[Len(s)]]

\* IndexMap::insert of a neuron gene under its id.
InsertNeuron(ns, gene) ==
    IF NeuronIndex(ns, gene.id) = 0 THEN Append(ns, gene)
    ELSE [ns EXCEPT ![NeuronIndex(ns, gene.id)] = gene]

Genome(ns, cs) == [neurons |-> ns, connections |-> cs]

\* ------------------------------------------------------------ operations
with_neurons(n) ==
    Genome([i \in 1 .. n |-> NeuronGene(0, i - 1)], <<>>)

\* add_connection with the assert on out_neuron left out.
add_connection_panics_in_only(g, in, out) ==
    \/ Len(g.neurons) = 0
    \/ in \notin NeuronKeys(g.neurons)

\* The three assert! of add_connection.
add_connection_panics(g, in, out) ==
    \/ Len(g.neurons) = 0
    \/ in \notin NeuronKeys(g.neurons)
    \/ out \notin NeuronKeys(g.neurons)

\* add_connection that leaves the weight of an existing connection alone.
add_connection_keep_weight(g, in, out, weight) ==
    IF ConnIndex(g.connections, in, out) # 0 THEN g
    ELSE Genome(g.neurons, Append(g.connections, ConnectionGene(in, out, weight)))

\* add_connection past its asserts.
add_connection(g, in, out, weight) ==
    LET i == ConnIndex(g.connections, in, out) IN
    IF i # 0
    THEN Genome(g.neurons, [g.connections EXCEPT ![i].weight = weight])
    ELSE Genome(g.neurons, Append(g.connections, ConnectionGene(in, out, weight)))

\* get_random_key: r is the random usize.
get_random_neuron(ns, r) == ns[(r % Len(ns)) + 1].id
get_random_conn(cs, r) == cs[(r % Len(cs)) + 1]

\* get_random_key fails on an empty map: random % map.len() divides by zero.
get_random_key_panics(map) == Len(map) = 0

mutate_add_connection(g, r1, r2) ==
    IF Len(g.neurons) = 0 THEN g
    ELSE add_connection(g, get_random_neuron(g.neurons, r1),
                           get_random_neuron(g.neurons, r2), 0)

\* mutate_add_connection fails when a pick or its add_connection call does.
mutate_add_connection_panics(g, r1, r2) ==
    /\ Len(g.neurons) # 0
    /\ \/ get_random_key_panics(g.neurons)
       \/ add_connection_panics(g, get_random_neuron(g.neurons, r1),
                                   get_random_neuron(g.neurons, r2))

\* As if mutate_del_conn picked a key without looking at connections.len().
mutate_del_conn_panics_unguarded(g) ==
    get_random_key_panics(g.connections)

\* mutate_del_conn fails when its pick does.
mutate_del_conn_panics(g) ==
    /\ Len(g.connections) > 0
    /\ get_random_key_panics(g.connections)

mutate_del_conn(g, r) ==
    IF Len(g.connections) > 0
    THEN LET c == get_random_conn(g.connections, r) IN
         Genome(g.neurons, SwapRemove(g.connections, ConnIndex(g.connections, c.in, c.out)))
    ELSE g

\* As if the second new connection got the literal weight of the first.
mutate_add_neuron_unit_weights(g, innov, r) ==
    IF Len(g.connections) = 0
    THEN Genome(InsertNeuron(g.neurons, NeuronGene(0, innov)), g.connections)
    ELSE LET old == get_random_conn(g.connections, r)
             cs1 == SwapRemove(g.connections, ConnIndex(g.connections, old.in, old.out))
             ns1 == InsertNeuron(g.neurons, NeuronGene(0, innov))
             g1  == add_connection(Genome(ns1, cs1), old.in, innov, 1)
         IN  add_connection(g1, innov, old.out, 1)

mutate_add_neuron(g, innov, r) ==
    IF Len(g.connections) = 0
    THEN Genome(InsertNeuron(g.neurons, NeuronGene(0, innov)), g.connections)
    ELSE LET old == get_random_conn(g.connections, r)
             cs1 == SwapRemove(g.connections, ConnIndex(g.connections, old.in, old.out))
             ns1 == InsertNeuron(g.neurons, NeuronGene(0, innov))
             g1  == add_connection(Genome(ns1, cs1), old.in, innov, 1)
         IN  add_connection(g1, innov, old.out, old.weight)

\* mutate_add_neuron fails when one of its two add_connection calls does.
mutate_add_neuron_panics(g, innov, r) ==
    /\ Len(g.connections) # 0
    /\ LET old == get_random_conn(g.connections, r)
           cs1 == SwapRemove(g.connections, ConnIndex(g.connections, old.in, old.out))
           ns1 == InsertNeuron(g.neurons, NeuronGene(0, innov))
       IN  \/ add_connection_panics(Genome(ns1, cs1), old.in, innov)
           \/ add_connection_panics(add_connection(Genome(ns1, cs1), old.in, innov, 1),
                                    innov, old.out)

\* The genome a failing mutate_add_neuron leaves behind.
mutate_add_neuron_failed(g, innov, r) ==
    LET old == get_random_conn(g.connections, r)
        cs1 == SwapRemove(g.connections, ConnIndex(g.connections, old.in, old.out))
        ns1 == InsertNeuron(g.neurons, NeuronGene(0, innov))
    IN  IF add_connection_panics(Genome(ns1, cs1), old.in, innov)
        THEN Genome(ns1, cs1)
        ELSE add_connection(Genome(ns1, cs1), old.in, innov, 1)

\* The connections mutate_del_neuron leaves after removing those touching id:
\* to_remove is collected in iteration order, then removed one by one.
RECURSIVE RemoveAll(_, _)
RemoveAll(cs, to_remove) ==
    IF to_remove = <<>> THEN cs
    ELSE RemoveAll(SwapRemove(cs, ConnIndex(cs, Head(to_remove).in, Head(to_remove).out)),
                   Tail(to_remove))

\* mutate_del_neuron that leaves the connections of the deleted neuron.
mutate_del_neuron_keep_conns(g, sacred_neurons, r) ==
    IF Len(g.neurons) <= sacred_neurons THEN g
    ELSE LET idx == (r % (Len(g.neurons) - sacred_neurons)) + sacred_neurons
         IN  Genome(SwapRemove(g.neurons, idx + 1), g.connections)

\* mutate_del_neuron that draws its index among all the neurons.
mutate_del_neuron_any_index(g, sacred_neurons, r) ==
    IF Len(g.neurons) <= sacred_neurons THEN g
    ELSE LET idx == r % Len(g.neurons)
             id  == g.neurons[idx + 1].id
             to_remove == SelectSeq(g.connections, LAMBDA c : c.in = id \/ c.out = id)
         IN  Genome(SwapRemove(g.neurons, idx + 1), RemoveAll(g.connections, to_remove))

\* mutate_del_neuron fails when get_index(idx) is None and is unwrapped.
mutate_del_neuron_panics(g, sacred_neurons, r) ==
    /\ Len(g.neurons) > sacred_neurons
    /\ (r % (Len(g.neurons) - sacred_neurons)) + sacred_neurons >= Len(g.neurons)

mutate_del_neuron(g, sacred_neurons, r) ==
    IF Len(g.neurons) <= sacred_neurons THEN g
    ELSE LET idx == (r % (Len(g.neurons) - sacred_neurons)) + sacred_neurons
             id  == g.neurons[idx + 1].id
             ns1 == SwapRemove(g.neurons, NeuronIndex(g.neurons, id))
             to_remove == SelectSeq(g.connections, LAMBDA c : c.in = id \/ c.out = id)
         IN  Genome(ns1, RemoveAll(g.connections, to_remove))

\* IndexMap::sort_keys on the neurons.
sort_keys(ns) ==
    [i \in 1 .. Len(ns) |->
        ns[CHOOSE j \in 1 .. Len(ns) :
            Cardinality({k \in 1 .. Len(ns) : ns[k].id < ns[j].id}) = i - 1]]

\* The loop of get_weights over the connections from position k on: each
\* writes its weight at (out_neuron_idx * n_neurons) + in_neuron_idx, the
\* indexes being positions in self.neurons.  The matrix is 1-based here.
RECURSIVE fill_weights(_, _, _, _)
fill_weights(matrix, ns, cs, k) ==
    IF k > Len(cs) THEN matrix
    ELSE LET out_neuron_idx == NeuronIndex(ns, cs[k].out) - 1
             in_neuron_idx  == NeuronIndex(ns, cs[k].in) - 1
             at == (out_neuron_idx * Len(ns)) + in_neuron_idx + 1
         IN  fill_weights([matrix EXCEPT ![at] = cs[k].weight], ns, cs, k + 1)

get_weights(g) ==
    fill_weights([k \in 1 .. Len(g.neurons) * Len(g.neurons) |-> 0],
                 g.neurons, g.connections, 1)

\* make_network with one time constant for each connection.
make_network_tau_by_connection(g) ==
    [theta |-> [i \in 1 .. Len(g.neurons) |-> sort_keys(g.neurons)[i].bias],
     tau   |-> [i \in 1 .. Len(g.connections) |-> 1],
     wij   |-> get_weights(g)]

\* make_network: the theta and wij handed to Ctrnn::new.
make_network(g) ==
    [theta |-> [i \in 1 .. Len(g.neurons) |-> sort_keys(g.neurons)[i].bias],
     tau   |-> [i \in 1 .. Len(g.neurons) |-> 1],
     wij   |-> get_weights(g)]

\* ------------------------------------------------------------ the machine
NoSlices == [sensors |-> <<>>, outputs |-> <<>>]

NoPair ==
    /\ pair = [a |-> with_neurons(0), b |-> with_neurons(0)]
    /\ organism = with_neurons(0)
    /\ slices = NoSlices
    /\ result = [op |-> "none"]

Init ==
    /\ NoPair
    /\ n_init \in 0 .. MaxInit
    /\ neurons = with_neurons(n_init).neurons
    /\ connections = with_neurons(n_init).connections
    /\ sacred \in 0 .. MaxInit
    /\ innovation_id = sacred
    /\ panicked = FALSE
    /\ last = [op |-> "with_neurons"]

Self == Genome(neurons, connections)

AddConnection ==
    /\ ~panicked
    /\ \E in \in NeuronIds, out \in NeuronIds, w \in Weights :
        /\ last' = [op |-> "add_connection", in |-> in, out |-> out, weight |-> w,
                     existed |-> ConnIndex(connections, in, out) # 0]
        /\ IF add_connection_panics(Self, in, out)
           THEN /\ panicked' = TRUE
                /\ UNCHANGED <<neurons, connections>>
           ELSE /\ Len(add_connection(Self, in, out, w).connections) <= MaxConns
                /\ neurons' = add_connection(Self, in, out, w).neurons
                /\ connections' = add_connection(Self, in, out, w).connections
                /\ UNCHANGED panicked
    /\ UNCHANGED <<innovation_id, sacred, n_init, pair_vars>>

\* Steps 5 and 6 of mutate: every gene keeps its value, has a sample added
\* to it, or is replaced by a sample.  A sample is any real, so the new
\* value is any value of the domain.
mutate_biases(ns) ==
    {[i \in 1 .. Len(ns) |-> NeuronGene(b[i], ns[i].id)] : b \in [1 .. Len(ns) -> Biases]}

mutate_weights(cs) ==
    {[i \in 1 .. Len(cs) |-> ConnectionGene(cs[i].in, cs[i].out, w[i])] :
        w \in [1 .. Len(cs) -> Weights]}

\* Step 1: rand < mutate_add_conn_pr || connections.is_empty().
step_add_connection(g) ==
    {mutate_add_connection(g, r1, r2) : r1 \in Rand, r2 \in Rand}
    \cup (IF Len(g.connections) = 0 THEN {} ELSE {g})

\* As if the counter were advanced in the branch that splits a connection
\* only.
step_add_neuron_count_splits(g, innov) ==
    {[g |-> g, innov |-> innov, panicked |-> FALSE, added |-> FALSE]}
    \cup (IF innov < MaxInnov
          THEN {IF mutate_add_neuron_panics(g, innov, r)
                THEN [g |-> mutate_add_neuron_failed(g, innov, r), innov |-> innov,
                      panicked |-> TRUE, added |-> TRUE]
                ELSE [g |-> mutate_add_neuron(g, innov, r),
                      innov |-> IF Len(g.connections) = 0 THEN innov ELSE innov + 1,
                      panicked |-> FALSE, added |-> TRUE] : r \in Rand}
          ELSE {})

\* Step 2: returns genome, counter, whether the step failed and whether
\* mutate_add_neuron was called; a failing step leaves the counter as it
\* was.  The counter is capped at MaxInnov: past it the draw against
\* mutate_add_neuron_pr fails.
step_add_neuron(g, innov) ==
    {[g |-> g, innov |-> innov, panicked |-> FALSE, added |-> FALSE]}
    \cup (IF innov < MaxInnov
          THEN {IF mutate_add_neuron_panics(g, innov, r)
                THEN [g |-> mutate_add_neuron_failed(g, innov, r), innov |-> innov,
                      panicked |-> TRUE, added |-> TRUE]
                ELSE [g |-> mutate_add_neuron(g, innov, r), innov |-> innov + 1,
                      panicked |-> FALSE, added |-> TRUE] : r \in Rand}
          ELSE {})

\* Step 3.
step_del_neuron(g, sacred_neurons) ==
    {g} \cup {mutate_del_neuron(g, sacred_neurons, r) : r \in Rand}

\* Step 4.
step_del_conn(g) ==
    {g} \cup {mutate_del_conn(g, r) : r \in Rand}

\* Steps 5 and 6.
step_parameters(g) ==
    {Genome(ns, cs) : ns \in mutate_biases(g.neurons), cs \in mutate_weights(g.connections)}

\* Steps 3 to 6, from the genome and the counter step 2 leaves.
steps_after_add_neuron(g2, innov, sacred_neurons) ==
    UNION {
        UNION {
            {[g |-> g5, innov |-> innov, panicked |-> FALSE] : g5 \in step_parameters(g4)}
            : g4 \in step_del_conn(g3)}
        : g3 \in step_del_neuron(g2, sacred_neurons)}

\* Every outcome of one call of mutate(&mut innovation_id, p).
mutate(g, innov, sacred_neurons) ==
    UNION {
        UNION {
            IF o2.panicked THEN {o2}
            ELSE {[g |-> o.g, innov |-> o.innov, panicked |-> o.panicked,
                   added |-> o2.added]
                  : o \in steps_after_add_neuron(o2.g, o2.innov, sacred_neurons)}
            : o2 \in step_add_neuron(g1, innov)}
        : g1 \in step_add_connection(g)}

Mutate ==
    /\ ~panicked
    /\ \E o \in mutate(Self, innovation_id, sacred) :
        /\ Len(o.g.connections) <= MaxConns
        /\ neurons' = o.g.neurons
        /\ connections' = o.g.connections
        /\ innovation_id' = o.innov
        /\ panicked' = o.panicked
    /\ last' = [op |-> "mutate"]
    /\ UNCHANGED <<sacred, n_init, pair_vars>>

Next == AddConnection \/ Mutate

Spec == Init /\ [][Next]_vars

\* ------------------------------------------- distance and crossover
\* Genes of both kinds: the id of a connection gene is (in, out) and its
\* parameter the weight; the id of a neuron gene is its id and its
\* parameter the bias.
IsConnectionGene(gene) == "weight" \in DOMAIN gene
GeneId(gene) == IF IsConnectionGene(gene) THEN <<gene.in, gene.out>> ELSE <<gene.id>>
GeneParam(gene) == IF IsConnectionGene(gene) THEN gene.weight ELSE gene.bias

Abs(x) == IF x < 0 THEN -x ELSE x
Max(x, y) == IF x >= y THEN x ELSE y

\* Gene::distance: |weight1 - weight2|, |bias1 - bias2|.
gene_distance(gene1, gene2) == Abs(GeneParam(gene1) - GeneParam(gene2))

\* IndexMap::get by gene id: the position, 0 when absent.
GeneIndex(genes, id) ==
    IF \E i \in 1 .. Len(genes) : GeneId(genes[i]) = id
    THEN CHOOSE i \in 1 .. Len(genes) : GeneId(genes[i]) = id
    ELSE 0

\* A real is a fraction <<numerator, denominator>> with denominator > 0.
Rat(n, d) == <<n, d>>
RatAdd(x, y) == <<x[1] * y[2] + y[1] * x[2], x[2] * y[2]>>
RatEq(x, y) == x[1] * y[2] = y[1] * x[2]
RatLeq(x, y) == x[1] * y[2] <= y[1] * x[2]

\* common_genes of distance: the genes of genome1 that genome2 holds too,
\* paired with genome2's, in genome1's order.
RECURSIVE common_genes(_, _, _)
common_genes(genome1, genome2, k) ==
    IF k > Len(genome1) THEN <<>>
    ELSE LET j == GeneIndex(genome2, GeneId(genome1[k])) IN
         (IF j # 0 THEN <<<<genome1[k], genome2[j]>>>> ELSE <<>>)
             \o common_genes(genome1, genome2, k + 1)

\* .map(gene1.distance(gene2)).sum()
RECURSIVE sum_distances(_)
sum_distances(common) ==
    IF common = <<>> THEN 0
    ELSE gene_distance(Head(common)[1], Head(common)[2]) + sum_distances(Tail(common))

\* distance with max(len1, len2) replaced by genome1.len().
distance_by_first_len(genome1, genome2, p) ==
    LET common == common_genes(genome1, genome2, 1)
        disjoint_genes == Len(genome1) + Len(genome2) - (2 * Len(common))
        genes_distance == sum_distances(common)
        max_genes == Len(genome1)
    IN  IF max_genes = 0 THEN Rat(0, 1)
        ELSE Rat(disjoint_genes * p.distance_disjoint_coef
                   + genes_distance * p.distance_weight_coef, max_genes)

\* distance that counts each common gene once among the disjoint ones.
distance_common_once(genome1, genome2, p) ==
    LET common == common_genes(genome1, genome2, 1)
        disjoint_genes == Len(genome1) + Len(genome2) - Len(common)
        genes_distance == sum_distances(common)
        max_genes == Max(Len(genome1), Len(genome2))
    IN  IF max_genes = 0 THEN Rat(0, 1)
        ELSE Rat(disjoint_genes * p.distance_disjoint_coef
                   + genes_distance * p.distance_weight_coef, max_genes)

\* fn distance<T: Gene> over one of the two maps.
distance(genome1, genome2, p) ==
    LET common == common_genes(genome1, genome2, 1)
        disjoint_genes == Len(genome1) + Len(genome2) - (2 * Len(common))
        genes_distance == sum_distances(common)
        max_genes == Max(Len(genome1), Len(genome2))
    IN  IF max_genes = 0 THEN Rat(0, 1)
        ELSE Rat(disjoint_genes * p.distance_disjoint_coef
                   + genes_distance * p.distance_weight_coef, max_genes)

\* Genome::distance.
genome_distance(self, other, p) ==
    RatAdd(distance(self.connections, other.connections, p),
           distance(self.neurons, other.neurons, p))

\* reproduce that also takes the genes only the worst parent holds.
reproduce_with_worst(best, worst, coins) ==
    [i \in 1 .. Len(best) |->
        LET j == GeneIndex(worst, GeneId(best[i])) IN
        IF j # 0 THEN (IF coins[i] THEN best[i] ELSE worst[j]) ELSE best[i]]
    \o SelectSeq(worst, LAMBDA gene : GeneIndex(best, GeneId(gene)) = 0)

\* reproduce: coins[i] is the draw rand::random::<f64>() < 0.5 made for the
\* i-th gene of best.  The keys inserted are those of best, in best's order.
reproduce(best, worst, coins) ==
    [i \in 1 .. Len(best) |->
        LET j == GeneIndex(worst, GeneId(best[i])) IN
        IF j # 0 THEN (IF coins[i] THEN best[i] ELSE worst[j]) ELSE best[i]]

\* Genome::mate.
mate(self, other, fittest, neuron_coins, conn_coins) ==
    LET best  == IF fittest THEN self ELSE other
        worst == IF fittest THEN other ELSE self
    IN  Genome(reproduce(best.neurons, worst.neurons, neuron_coins),
               reproduce(best.connections, worst.connections, conn_coins))

\* ---------------------------------------------------- the pair machine
\* The parents range over every genome of at most PairIds neurons, with
\* ids below PairIds in any order, and at most PairConns connections
\* between them; biases and weights are 0 .. PairVal, the two distance
\* coefficients 0 .. MaxCoef.
PairIds == 2
PairConns == 1
PairVal == 1
MaxCoef == 2

SeqsUpTo(S, n) == UNION {[1 .. k -> S] : k \in 0 .. n}
DistinctIds(genes) ==
    \A i \in 1 .. Len(genes), j \in 1 .. Len(genes) :
        GeneId(genes[i]) = GeneId(genes[j]) => i = j

NeuronMaps(ids, val) ==
    {ns \in SeqsUpTo([id : 0 .. (ids - 1), bias : 0 .. val], ids) : DistinctIds(ns)}
ConnectionMaps(ns, conns, val) ==
    {cs \in SeqsUpTo([in : NeuronKeys(ns), out : NeuronKeys(ns), weight : 0 .. val], conns) :
        DistinctIds(cs)}
Genomes(ids, conns, val) ==
    UNION {{Genome(ns, cs) : cs \in ConnectionMaps(ns, conns, val)} :
              ns \in NeuronMaps(ids, val)}

Params ==
    [distance_disjoint_coef : 0 .. MaxCoef, distance_weight_coef : 0 .. MaxCoef]

NoGenome ==
    /\ neurons = <<>> /\ connections = <<>>
    /\ innovation_id = 0 /\ sacred = 0 /\ n_init = 0
    /\ panicked = FALSE
    /\ last = [op |-> "none"]

InitPair ==
    /\ NoGenome
    /\ pair \in [a : Genomes(PairIds, PairConns, PairVal),
               b : Genomes(PairIds, PairConns, PairVal)]
    /\ organism = with_neurons(0)
    /\ slices = NoSlices
    /\ result = [op |-> "none"]

\* a.distance(&b, &p), with b.distance(&a, &p) and a.distance(&a, &p).
Distance ==
    /\ \E p \in Params :
        result' = [op |-> "distance", p |-> p,
                   ab |-> genome_distance(pair.a, pair.b, p),
                   ba |-> genome_distance(pair.b, pair.a, p),
                   aa |-> genome_distance(pair.a, pair.a, p)]
    /\ UNCHANGED <<genome_vars, pair, organism, slices>>

\* a.mate(&b, fittest, &p).
Mate ==
    /\ \E fittest \in BOOLEAN :
       \E neuron_coins \in [1 .. PairIds -> BOOLEAN] :
       \E conn_coins \in [1 .. PairConns -> BOOLEAN] :
        result' = [op |-> "mate", fittest |-> fittest,
                   child |-> mate(pair.a, pair.b, fittest, neuron_coins, conn_coins)]
    /\ UNCHANGED <<genome_vars, pair, organism, slices>>

NextPair == Distance \/ Mate

SpecPair == InitPair /\ [][NextPair]_vars

\* ------------------------------------------------- the species machine
\* Genome::is_same_specie: distance <= compatibility_threshold.
is_same_specie(self, other, p) ==
    RatLeq(genome_distance(self, other, p), Rat(p.compatibility_threshold, 1))

\* The two genomes of the test
\* two_genomes_with_big_difference_should_be_in_different_species and its
\* params; the add_connection calls of the test are made in any order, with
\* either of the test's weights.
SpeciesParams ==
    [compatibility_threshold |-> 3, distance_weight_coef |-> 1, distance_disjoint_coef |-> 1]
SpeciesWeights == {1, 5}

InitSpecies ==
    /\ NoGenome
    /\ pair = [a |-> with_neurons(2), b |-> with_neurons(4)]
    /\ organism = with_neurons(0)
    /\ slices = NoSlices
    /\ result = [op |-> "none"]

\* genome1.add_connection(0, out, w), out a neuron of genome1.
SpeciesAddConnection1 ==
    /\ \E out \in 0 .. 1, w \in SpeciesWeights :
        /\ ~add_connection_panics(pair.a, 0, out)
        /\ pair' = [pair EXCEPT !.a = add_connection(pair.a, 0, out, w)]
    /\ result' = [op |-> "add_connection"]
    /\ UNCHANGED <<genome_vars, organism, slices>>

\* genome2.add_connection(0, out, w), out a neuron of genome2.
SpeciesAddConnection2 ==
    /\ \E out \in 0 .. 3, w \in SpeciesWeights :
        /\ ~add_connection_panics(pair.b, 0, out)
        /\ pair' = [pair EXCEPT !.b = add_connection(pair.b, 0, out, w)]
    /\ result' = [op |-> "add_connection"]
    /\ UNCHANGED <<genome_vars, organism, slices>>

\* genome1.is_same_specie(&genome2, &p)
IsSameSpecie ==
    /\ result' = [op |-> "is_same_specie",
                  distance |-> genome_distance(pair.a, pair.b, SpeciesParams),
                  same |-> is_same_specie(pair.a, pair.b, SpeciesParams)]
    /\ UNCHANGED <<genome_vars, pair, organism, slices>>

NextSpecies == SpeciesAddConnection1 \/ SpeciesAddConnection2 \/ IsSameSpecie

SpecSpecies == InitSpecies /\ [][NextSpecies]_vars

\* ---------------------------------------------- the activation machine
\* (vector.len() as f64).sqrt() as usize
Isqrt(k) == CHOOSE w \in 0 .. k : w * w <= k /\ (w + 1) * (w + 1) > k

\* Ctrnn::activate_nn fails where rulinalg does: Matrix::new when the data
\* are not rows * cols long, and in the loop the subtraction, the product
\* and the element-wise product when the dimensions differ.
activate_nn_panics(ctrnn, steps) ==
    LET width == Isqrt(Len(ctrnn.wij)) IN
    \/ width * width # Len(ctrnn.wij)
    \/ /\ steps > 0
       /\ \/ Len(ctrnn.theta) # Len(ctrnn.y)
          \/ width # Len(ctrnn.y)
          \/ Len(ctrnn.i) # Len(ctrnn.y)
          \/ Len(ctrnn.tau) # Len(ctrnn.y)

\* What activate_nn can return: a vector as long as y.  Its entries are
\* reals computed with exp; here they are any value of 0 .. MaxOutput.
MaxOutput == 1
activate_nn(ctrnn, steps) == [1 .. Len(ctrnn.y) -> 0 .. MaxOutput]

\* The input vector of activate: the first min(len(sensors), n) sensors,
\* then zeros.
sensor_input(sensors, n) ==
    [k \in 1 .. n |-> IF k <= Len(sensors) THEN sensors[k] ELSE 0]

\* The output slices activate can leave, y being the final state: the last
\* len(outputs) entries of y; a slice longer than y is left with values
\* that are not specified.
written_outputs(outputs, y) ==
    IF Len(outputs) <= Len(y)
    THEN {[k \in 1 .. Len(outputs) |-> y[Len(y) - Len(outputs) + k]]}
    ELSE [1 .. Len(outputs) -> 0 .. MaxOutput]

\* The Ctrnn that activate integrates: the network of make_network, from
\* y = 0, with the sensors as input, for 10 steps.
Steps == 10
activation(g, sensors) ==
    LET net == make_network(g) IN
    [y |-> [k \in 1 .. Len(g.neurons) |-> 0], theta |-> net.theta, tau |-> net.tau,
     wij |-> net.wij, i |-> sensor_input(sensors, Len(g.neurons))]

\* Sensors and outputs are at most MaxSlice long; sensor values 0 .. MaxSensor.
MaxSlice == 3
MaxSensor == 1

InitActivate ==
    /\ NoGenome
    /\ pair = [a |-> with_neurons(0), b |-> with_neurons(0)]
    /\ organism \in Genomes(PairIds, PairConns, PairVal)
    /\ slices \in [sensors : SeqsUpTo(0 .. MaxSensor, MaxSlice),
                    outputs : {[k \in 1 .. m |-> 0] : m \in 0 .. MaxSlice}]
    /\ result = [op |-> "none"]

\* organism.make_network().activate(sensors, &mut outputs)
Activate ==
    /\ LET ctrnn == activation(organism, slices.sensors) IN
       IF activate_nn_panics(ctrnn, Steps)
       THEN /\ result' = [op |-> "activate", failed |-> TRUE]
            /\ UNCHANGED slices
       ELSE \E y \in activate_nn(ctrnn, Steps) :
            \E written \in written_outputs(slices.outputs, y) :
                /\ result' = [op |-> "activate", failed |-> FALSE, i |-> ctrnn.i, y |-> y]
                /\ slices' = [slices EXCEPT !.outputs = written]
    /\ UNCHANGED <<genome_vars, pair, organism>>

NextActivate == Activate

SpecActivate == InitActivate /\ [][NextActivate]_vars

\* ------------------------------------------- two genomes, one counter
\* pair.a and pair.b are created by with_neurons(n_init) and mutated in any
\* order with the one counter innovation_id, seeded at the number of
\* sacred neurons.  result keeps, of the last call: the counter before it,
\* whether mutate_add_neuron was called, whether the id it was given had
\* never been a neuron id of either genome, whether a neuron of that id
\* was in the mutated genome, and the ids used so far.
SharedConns == 1

InitShared ==
    /\ neurons = <<>> /\ connections = <<>>
    /\ panicked = FALSE
    /\ last = [op |-> "none"]
    /\ organism = with_neurons(0)
    /\ slices = NoSlices
    /\ n_init \in 0 .. MaxInit
    /\ sacred \in 0 .. MaxInit
    /\ innovation_id = sacred
    /\ pair = [a |-> with_neurons(n_init), b |-> with_neurons(n_init)]
    /\ result = [op |-> "with_neurons", before |-> sacred, added |-> FALSE,
                 fresh |-> TRUE, overwrote |-> FALSE,
                 used |-> NeuronKeys(with_neurons(n_init).neurons)]

\* The history of one call of mutate on genome g with outcome o.
mutate_result(g, o) ==
    [op        |-> "mutate",
     before    |-> innovation_id,
     added     |-> o.added,
     fresh     |-> innovation_id \notin result.used,
     overwrote |-> o.added /\ innovation_id \in NeuronKeys(g.neurons),
     used      |-> result.used \cup (IF o.added THEN {innovation_id} ELSE {})]

\* pair.a.mutate(&mut innovation_id, &p).
MutateA ==
    /\ \E o \in mutate(pair.a, innovation_id, sacred) :
        /\ ~o.panicked
        /\ Len(o.g.connections) <= SharedConns
        /\ pair' = [pair EXCEPT !.a = o.g]
        /\ innovation_id' = o.innov
        /\ result' = mutate_result(pair.a, o)
    /\ UNCHANGED <<neurons, connections, sacred, n_init, panicked, last, organism, slices>>

\* pair.b.mutate(&mut innovation_id, &p).
MutateB ==
    /\ \E o \in mutate(pair.b, innovation_id, sacred) :
        /\ ~o.panicked
        /\ Len(o.g.connections) <= SharedConns
        /\ pair' = [pair EXCEPT !.b = o.g]
        /\ innovation_id' = o.innov
        /\ result' = mutate_result(pair.b, o)
    /\ UNCHANGED <<neurons, connections, sacred, n_init, panicked, last, organism, slices>>

NextShared == MutateA \/ MutateB

SpecShared == InitShared /\ [][NextShared]_vars

\* ------------------------------------------------------------ properties
\* The call that led to this state.
IsMutate == last.op = "mutate"
IsAddConnection == last.op = "add_connection"

\* Some neuron id the counter has handed out is gone: a neuron was deleted.
SomeNeuronDeleted ==
    \E id \in NeuronIds :
        /\ id >= sacred /\ id >= n_init /\ id < innovation_id
        /\ id \notin NeuronKeys(neurons)

\* C1 - connection integrity: after with_neurons(n), valid add_connection
\* calls and any sequence of mutate calls, both endpoints of every
\* connection are keys of the neuron map.
ConnectionIntegrity ==
    \A i \in 1 .. Len(connections) :
        /\ connections[i].in \in NeuronKeys(neurons)
        /\ connections[i].out \in NeuronKeys(neurons)

\* A mutate call that left connections through a hidden neuron while an
\* earlier hidden neuron has been deleted.
ConnectionIntegrityWitness ==
    /\ IsMutate /\ SomeNeuronDeleted
    /\ \E i \in 1 .. Len(connections) :
          connections[i].in >= n_init \/ connections[i].out >= n_init

\* C2 - sacred neurons: for a genome made by with_neurons(n_inputs +
\* n_outputs), the ids 0 .. n_inputs+n_outputs-1 are present after every
\* mutate call; mutate_del_neuron leaves the first n_inputs+n_outputs
\* positions alone, removes at most one neuron, and changes nothing when the
\* genome has no more than n_inputs+n_outputs neurons.
SacredNeurons ==
    /\ n_init = sacred => \A id \in 0 .. (sacred - 1) : id \in NeuronKeys(neurons)
    /\ \A r \in Rand :
        LET after == mutate_del_neuron(Self, sacred, r).neurons
            kept  == IF Len(neurons) < sacred THEN Len(neurons) ELSE sacred
        IN  /\ SubSeq(after, 1, kept) = SubSeq(neurons, 1, kept)
            /\ NeuronKeys(neurons) \ NeuronKeys(after)
                   \subseteq {neurons[i].id : i \in (sacred + 1) .. Len(neurons)}
            /\ Len(neurons) <= sacred => mutate_del_neuron(Self, sacred, r) = Self

\* A genome made with its sacred neurons only, after a mutate call that
\* deleted a hidden neuron.
SacredNeuronsWitness ==
    /\ n_init = sacred /\ sacred > 0
    /\ IsMutate /\ SomeNeuronDeleted

\* C5 - idempotent add_connection: with a and b neurons of the genome,
\* add_connection(a, b, w1) followed by add_connection(a, b, w2) leaves the
\* genome that add_connection(a, b, w2) alone leaves: one connection (a, b),
\* of weight w2, at the same position among the same other genes.
IdempotentAddConnection ==
    \A a \in NeuronKeys(neurons), b \in NeuronKeys(neurons) :
        \A w1 \in Weights, w2 \in Weights :
            LET twice == add_connection(add_connection(Self, a, b, w1), a, b, w2)
                once  == add_connection(Self, a, b, w2)
                at    == ConnIndex(once.connections, a, b)
            IN  /\ twice = once
                /\ Cardinality({i \in 1 .. Len(twice.connections) :
                        twice.connections[i].in = a /\ twice.connections[i].out = b}) = 1
                /\ twice.connections[at].weight = w2

\* add_connection has just overwritten the weight of a connection that is
\* not the last one of the map.
IdempotentAddConnectionWitness ==
    /\ IsAddConnection /\ ~panicked /\ last.existed
    /\ ConnIndex(connections, last.in, last.out) < Len(connections)
    /\ last.weight # 0

\* C6 - add_connection fails exactly when in or out is no key of the neuron
\* map or the genome has no neuron; a failing call leaves the genome as it
\* was; every other call, self-loops included, leaves the connection
\* (in, out) with the given weight.
AddConnectionFails ==
    [][last'.op = "add_connection" =>
        LET invalid == \/ last'.in \notin NeuronKeys(neurons)
                       \/ last'.out \notin NeuronKeys(neurons)
                       \/ Len(neurons) = 0
        IN  /\ panicked' <=> invalid
            /\ panicked' => neurons' = neurons /\ connections' = connections
            /\ ~panicked' =>
                 /\ ConnIndex(connections', last'.in, last'.out) # 0
                 /\ connections'[ConnIndex(connections', last'.in, last'.out)].weight
                        = last'.weight
      ]_vars

\* add_connection has failed on a genome that has neurons and a
\* connection, because of its out_neuron alone.
AddConnectionFailsWitness ==
    /\ IsAddConnection /\ panicked
    /\ last.in \in NeuronKeys(neurons) /\ last.out \notin NeuronKeys(neurons)
    /\ Len(connections) > 0

\* add_connection has made a self-loop.
AddConnectionSelfLoopWitness ==
    /\ IsAddConnection /\ ~panicked /\ last.in = last.out

\* The 0-based position of a neuron id in the id-sorted neuron list.
SortedIndex(ns, id) == NeuronIndex(sort_keys(ns), id) - 1

\* The matrix indexed by the positions of the id-sorted neuron list.
WeightsBySortedIndex(g) ==
    [k \in 1 .. Len(g.neurons) * Len(g.neurons) |->
        LET n == Len(g.neurons)
            hit == {i \in 1 .. Len(g.connections) :
                      /\ SortedIndex(g.neurons, g.connections[i].out) = (k - 1) \div n
                      /\ SortedIndex(g.neurons, g.connections[i].in) = (k - 1) % n}
        IN  IF hit = {} THEN 0 ELSE g.connections[CHOOSE i \in hit : TRUE].weight]

\* C7 - make_network indexing: row r, column c of the weight matrix holds the
\* weight of the connection from the c-th to the r-th neuron of the id-sorted
\* neuron list, 0 when there is none.
MakeNetworkIndexing ==
    ~panicked => make_network(Self).wij = WeightsBySortedIndex(Self)

\* The ids of a gene map.
GeneIds(genes) == {GeneId(genes[i]) : i \in 1 .. Len(genes)}

\* C3 - crossover supremacy: the child of a.mate(b, fittest) has the neuron
\* ids and the connection ids of a when fittest, of b otherwise: none that
\* only the less fit parent holds, none of the fitter parent missing, none
\* twice.
CrossoverSupremacy ==
    result.op = "mate" =>
        LET fitter == IF result.fittest THEN pair.a ELSE pair.b
            child  == result.child
        IN  /\ GeneIds(child.neurons) = GeneIds(fitter.neurons)
            /\ GeneIds(child.connections) = GeneIds(fitter.connections)
            /\ DistinctIds(child.neurons) /\ DistinctIds(child.connections)
            /\ Len(child.neurons) = Len(fitter.neurons)
            /\ Len(child.connections) = Len(fitter.connections)

\* a is the fitter parent; b holds a neuron and a connection a does not; a
\* holds a connection b does not; the child took a shared neuron from b.
CrossoverSupremacyWitness ==
    /\ result.op = "mate" /\ result.fittest
    /\ GeneIds(pair.b.neurons) \ GeneIds(pair.a.neurons) # {}
    /\ GeneIds(pair.b.connections) \ GeneIds(pair.a.connections) # {}
    /\ GeneIds(pair.a.connections) \ GeneIds(pair.b.connections) # {}
    /\ \E i \in 1 .. Len(result.child.neurons) :
          /\ result.child.neurons[i] # pair.a.neurons[i]
          /\ result.child.neurons[i] \in {pair.b.neurons[j] : j \in 1 .. Len(pair.b.neurons)}

\* b is the fitter parent (fittest = FALSE) and the parents' ids differ.
CrossoverSupremacyOtherWitness ==
    /\ result.op = "mate" /\ ~result.fittest
    /\ GeneIds(pair.a.neurons) \ GeneIds(pair.b.neurons) # {}
    /\ GeneIds(pair.a.connections) # GeneIds(pair.b.connections)

DistanceIdentityEmptyWitness ==
    /\ result.op = "distance"
    /\ pair.a.neurons = <<>> /\ pair.a.connections = <<>>
    /\ result.aa[1] = 0

\* The gene a map holds under an id.
GeneOf(genes, id) == genes[GeneIndex(genes, id)]

\* The sum over ids of the distance of the two genes under each id.
RECURSIVE SumOver(_, _, _)
SumOver(ids, genes1, genes2) ==
    IF ids = {} THEN 0
    ELSE LET id == CHOOSE x \in ids : TRUE IN
         Abs(GeneParam(GeneOf(genes1, id)) - GeneParam(GeneOf(genes2, id)))
             + SumOver(ids \ {id}, genes1, genes2)

\* The component of the distance formula for one of the two gene maps.
ComponentFormula(genes1, genes2, p) ==
    LET shared == GeneIds(genes1) \cap GeneIds(genes2)
        D == Cardinality(GeneIds(genes1)) + Cardinality(GeneIds(genes2))
                 - 2 * Cardinality(shared)
        S == SumOver(shared, genes1, genes2)
        m == Max(Cardinality(GeneIds(genes1)), Cardinality(GeneIds(genes2)))
    IN  IF m = 0 THEN Rat(0, 1)
        ELSE Rat(D * p.distance_disjoint_coef + S * p.distance_weight_coef, m)

\* C8 - compatibility distance formula: the distance is the sum over the two
\* gene maps of (D * distance_disjoint_coef + S * distance_weight_coef) /
\* max(|G1|, |G2|), D = |G1| + |G2| - 2 * |shared ids|, S = the sum over the
\* shared ids of |parameter1 - parameter2|; 0 for a map empty in both.
DistanceFormula ==
    result.op = "distance" =>
        /\ RatEq(result.ab,
                 RatAdd(ComponentFormula(pair.a.neurons, pair.b.neurons, result.p),
                        ComponentFormula(pair.a.connections, pair.b.connections, result.p)))
        /\ result.ab[2] > 0

\* Both components count: shared and unshared neurons, neither genome has
\* a connection (that component is 0), both coefficients differ and are
\* not 0, and a shared bias differs.
DistanceFormulaWitness ==
    /\ result.op = "distance"
    /\ pair.a.connections = <<>> /\ pair.b.connections = <<>>
    /\ result.p.distance_disjoint_coef # result.p.distance_weight_coef
    /\ result.p.distance_disjoint_coef > 0 /\ result.p.distance_weight_coef > 0
    /\ GeneIds(pair.a.neurons) \cap GeneIds(pair.b.neurons) # {}
    /\ GeneIds(pair.a.neurons) # GeneIds(pair.b.neurons)
    /\ SumOver(GeneIds(pair.a.neurons) \cap GeneIds(pair.b.neurons),
               pair.a.neurons, pair.b.neurons) > 0

\* The genes of a map, as a set.
GenesOf(genes) == {genes[i] : i \in 1 .. Len(genes)}

\* Both genomes are those of the test.
TestGenomes ==
    /\ Len(pair.a.neurons) = 2 /\ Len(pair.b.neurons) = 4
    /\ GenesOf(pair.a.connections) = {ConnectionGene(0, 0, 1), ConnectionGene(0, 1, 1)}
    /\ GenesOf(pair.b.connections) =
           {ConnectionGene(0, 0, 5), ConnectionGene(0, 1, 5),
            ConnectionGene(0, 2, 1), ConnectionGene(0, 3, 1)}

ActivateNeverFails ==
    result.op = "activate" =>
        LET n == Len(organism.neurons)
            copied == IF Len(slices.sensors) < n THEN Len(slices.sensors) ELSE n
            m == Len(slices.outputs)
        IN  /\ ~result.failed
            /\ Len(result.i) = n /\ Len(result.y) = n
            /\ \A k \in 1 .. copied : result.i[k] = slices.sensors[k]
            /\ \A k \in (copied + 1) .. n : result.i[k] = 0
            /\ m <= n => \A k \in 1 .. m : slices.outputs[k] = result.y[n - m + k]

\* More sensors than neurons, a sensor that is not 0 among those ignored,
\* and one output taken from a state whose entries differ.
ActivateNeverFailsWitness ==
    /\ result.op = "activate" /\ ~result.failed
    /\ Len(organism.neurons) = 2 /\ Len(organism.connections) > 0
    /\ Len(slices.sensors) = 3 /\ slices.sensors[3] = 1
    /\ Len(slices.outputs) = 1
    /\ result.y[1] # result.y[2]

\* More outputs than neurons.
ActivateLongOutputsWitness ==
    /\ result.op = "activate" /\ ~result.failed
    /\ Len(slices.outputs) > Len(organism.neurons)
    /\ Len(organism.neurons) > 0

\* The genomes each topological step of one mutate call can start from:
\* step 1 from the genome itself, step 2 after step 1, steps 3 and 4 after
\* the steps before them.
BeforeAddNeuron == step_add_connection(Self)
BeforeDelNeuron ==
    {o2.g : o2 \in UNION {step_add_neuron(g1, innovation_id) : g1 \in BeforeAddNeuron}}
BeforeDelConn ==
    UNION {step_del_neuron(g2, sacred) : g2 \in BeforeDelNeuron}

\* No step of mutate fails on the genome g for any random draw.
NoStepPanics(g) ==
    /\ \A r1 \in Rand, r2 \in Rand : ~mutate_add_connection_panics(g, r1, r2)
    /\ \A r \in Rand :
        /\ innovation_id < MaxInnov => ~mutate_add_neuron_panics(g, innovation_id, r)
        /\ ~mutate_del_neuron_panics(g, sacred, r)
    /\ ~mutate_del_conn_panics(g)

\* The steps that would pick from an empty collection leave g unchanged.
EmptyPicksAreNoOps(g) ==
    \A r1 \in Rand, r2 \in Rand :
        /\ Len(g.connections) = 0 => mutate_del_conn(g, r1) = g
        /\ Len(g.neurons) <= sacred => mutate_del_neuron(g, sacred, r1) = g
        /\ Len(g.neurons) = 0 => mutate_add_connection(g, r1, r2) = g

\* C12: mutate never fails on a genome that satisfies connection
\* integrity, the genomes with no connection, with sacred neurons only and
\* with no neuron included: no call of mutate has failed, no step of the
\* next call fails for any random draw on the genome it starts from, and
\* delete-connection without connections, delete-neuron without a
\* non-sacred neuron and add-connection without neurons change nothing.
MutateNeverFails ==
    /\ IsMutate => ~panicked
    /\ ~panicked =>
        \A g \in {Self} \cup BeforeAddNeuron \cup BeforeDelNeuron \cup BeforeDelConn :
            NoStepPanics(g) /\ EmptyPicksAreNoOps(g)

\* mutate has run on a genome without neurons and left it so.
MutateNeverFailsWitness ==
    /\ IsMutate
    /\ ~panicked
    /\ Len(neurons) = 0
    /\ Len(connections) = 0

\* mutate has run on a genome of sacred neurons only.
MutateSacredOnlyWitness ==
    /\ IsMutate
    /\ ~panicked
    /\ sacred > 0
    /\ Len(neurons) = sacred
    /\ n_init = sacred

\* The genes of an IndexMap as a set.
Range(s) == {s[i] : i \in 1 .. Len(s)}

\* h is g with neuron id of bias 0 added and connection C split through it.
IsSplit(g, h, id, C) ==
    /\ h.neurons = Append(g.neurons, NeuronGene(0, id))
    /\ Range(h.connections) =
           (Range(g.connections) \ {C})
           \cup {ConnectionGene(C.in, id, 1), ConnectionGene(id, C.out, C.weight)}
    /\ Len(h.connections) = Len(g.connections) + 1
    /\ Cardinality(ConnKeys(h.connections)) = Len(h.connections)

\* C13: mutate_add_neuron(id) with id not yet a neuron id, on a genome with
\* a connection, removes one connection C = (a -> b, w), inserts neuron id
\* with bias 0 and the connections (a -> id, 1) and (id -> b, w) and leaves
\* every other gene as it was, so that both counts grow by one; on a genome
\* without connections it only inserts neuron id with bias 0.
AddNeuronSplit ==
    \A id \in NeuronIds \ NeuronKeys(neurons), r \in Rand :
        LET h == mutate_add_neuron(Self, id, r) IN
        /\ ~mutate_add_neuron_panics(Self, id, r)
        /\ IF Len(connections) = 0
           THEN h = Genome(Append(neurons, NeuronGene(0, id)), <<>>)
           ELSE \E C \in Range(connections) : IsSplit(Self, h, id, C)

\* A genome with two connections of different weights and room for an id:
\* the split of either is told from the split of the other.
AddNeuronSplitWitness ==
    /\ NeuronIds \ NeuronKeys(neurons) # {}
    /\ \E C \in Range(connections), D \in Range(connections) :
         C.weight = 0 /\ D.weight # 0

\* mutate has split a connection through the neuron it created: the last
\* id handed out has an incoming and an outgoing connection.
AddNeuronSplitDoneWitness ==
    /\ IsMutate
    /\ innovation_id > sacred
    /\ innovation_id - 1 >= n_init
    /\ \E C \in Range(connections), D \in Range(connections) :
         /\ C.out = innovation_id - 1 /\ C.in # innovation_id - 1
         /\ D.in = innovation_id - 1 /\ D.out # innovation_id - 1

\* mutate_add_neuron has nothing to split: a genome without connections.
AddNeuronNoConnectionWitness ==
    /\ Len(connections) = 0
    /\ Len(neurons) > 0
    /\ NeuronIds \ NeuronKeys(neurons) # {}

\* The last call of mutate moved the counter by one if it called
\* mutate_add_neuron and not at all otherwise, and the id it gave a new
\* neuron was neither used before nor the id of a neuron of the genome.
CounterStep ==
    /\ innovation_id >= result.before
    /\ innovation_id = result.before + (IF result.added THEN 1 ELSE 0)
    /\ result.added => result.fresh /\ ~result.overwrote

\* C14 as stated: for any genomes that share a counter seeded at
\* n_inputs + n_outputs, every call of mutate leaves the counter as it was
\* or, when it performs the add-neuron step, one higher, and the neuron it
\* creates gets an id no genome has used and overwrites no neuron.
InnovationCounter ==
    result.op = "mutate" => CounterStep

\* C14, amended: the same for genomes created with no more neurons than
\* the seed of the counter, n_inputs + n_outputs.
InnovationCounterSeeded ==
    (result.op = "mutate" /\ n_init <= sacred) => CounterStep

\* Both genomes hold a hidden neuron the shared counter numbered, of
\* different ids, the last call having added one.
InnovationCounterSeededWitness ==
    /\ result.op = "mutate"
    /\ result.added
    /\ n_init <= sacred
    /\ \E i \in NeuronKeys(pair.a.neurons), j \in NeuronKeys(pair.b.neurons) :
         i >= sacred /\ j >= sacred /\ i # j
====
